---- MODULE Spec2Model ----
(***************************************************************************)
(* Model of the gim-app form-analysis engine:                              *)
(*   - geometry primitives          (src/src/lib/pose-utils.ts)            *)
(*   - phase tracker and the squat / deadlift analyzers, analyzeForm       *)
(*                                   (src/unnamed/part_002, form-checker)  *)
(*   - the session aggregator hook useFormChecker (src/unnamed/part_005)   *)
(*                                                                         *)
(* Numbers.  Landmark coordinates are normalized image coordinates; the    *)
(* model keeps them as integers in units of 1/1000.  Angles are degrees    *)
(* rounded to the nearest integer (Math.atan2 is modelled by an integer    *)
(* arctangent that rounds each direction to the nearest degree).           *)
(***************************************************************************)
EXTENDS Integers, Sequences, FiniteSets, TLC

(***************************************************************************)
(* pose-utils.ts                                                           *)
(***************************************************************************)

\* LANDMARKS: the MediaPipe indices the analyzers read.
LEFT_SHOULDER == 11
RIGHT_SHOULDER == 12
LEFT_HIP == 23
RIGHT_HIP == 24
LEFT_KNEE == 25
RIGHT_KNEE == 26
LEFT_ANKLE == 27
RIGHT_ANKLE == 28

Abs(n) == IF n < 0 THEN -n ELSE n

\* 10000 * tan((i - 1/2) degrees), i = 1..90: the directions at which the
\* arctangent, rounded to whole degrees, steps from i-1 to i.
TanHalfDeg ==
  << 87, 262, 437, 612, 787, 963, 1139, 1317, 1495, 1673,
     1853, 2035, 2217, 2401, 2586, 2773, 2962, 3153, 3346, 3541,
     3739, 3939, 4142, 4348, 4557, 4770, 4986, 5206, 5430, 5658,
     5890, 6128, 6371, 6619, 6873, 7133, 7400, 7673, 7954, 8243,
     8541, 8847, 9163, 9490, 9827, 10176, 10538, 10913, 11303, 11708,
     12131, 12572, 13032, 13514, 14019, 14550, 15108, 15697, 16319, 16977,
     17675, 18418, 19210, 20057, 20965, 21943, 22998, 24142, 25386, 26746,
     28239, 29887, 31716, 33759, 36059, 38667, 41653, 45107, 49152, 53955,
     59758, 66912, 75958, 87769, 103854, 127062, 163499, 229038, 381885,
     1145887 >>

\* The whole degrees of the arctangent of ady/adx in the first quadrant:
\* how many of the 90 steps the direction has passed (found by bisection:
\* the steps lo already passed, hi the first known not passed).
RECURSIVE atanDeg(_, _, _, _)
atanDeg(ady, adx, lo, hi) ==
  IF hi - lo <= 1 THEN lo
  ELSE LET mid == (lo + hi) \div 2
       IN  IF ady * 10000 >= adx * TanHalfDeg[mid]
             THEN atanDeg(ady, adx, mid, hi)
             ELSE atanDeg(ady, adx, lo, mid)

\* Math.atan2(dy, dx) in whole degrees, in (-180, 180]; atan2(0, 0) = 0.
Atan2Deg(dy, dx) ==
  IF dx = 0 /\ dy = 0 THEN 0
  ELSE LET base == atanDeg(Abs(dy), Abs(dx), 0, 91)
       IN  IF dy >= 0
             THEN (IF dx >= 0 THEN base ELSE 180 - base)
             ELSE (IF dx >= 0 THEN -base ELSE base - 180)

\* calculateAngle(a, b, c): the angle at vertex b, folded into [0, 180].
calculateAngle(a, b, c) ==
  LET degrees == Abs(Atan2Deg(c.y - b.y, c.x - b.x)
                     - Atan2Deg(a.y - b.y, a.x - b.x))
  IN  IF degrees > 180 THEN 360 - degrees ELSE degrees

\* getMidpoint(a, b): component-wise average (the optional depth z is
\* averaged too in the source but no angle reads it; it is not modelled).
getMidpoint(a, b) == [x |-> (a.x + b.x) \div 2, y |-> (a.y + b.y) \div 2]

getKneeAngle(hip, knee, ankle) == calculateAngle(hip, knee, ankle)

getHipAngle(shoulder, hip, knee) == calculateAngle(shoulder, hip, knee)

\* getTorsoAngle: angle of hip->shoulder against a point one unit (1.0 in
\* normalized coordinates, 1000 here) straight above the hip.
getTorsoAngle(shoulder, hip) ==
  calculateAngle([x |-> hip.x, y |-> hip.y - 1000], hip, shoulder)

(***************************************************************************)
(* form-checker (src/unnamed/part_002)                                     *)
(***************************************************************************)

\* type Exercise = "squat" | "deadlift"
Exercise == {"squat", "deadlift"}

\* type Phase
Phase == {"standing", "descending", "bottom", "ascending"}

\* type FormIssue
FormIssue == {"knees_caving", "not_deep_enough", "too_deep", "forward_lean",
              "rounded_back", "knees_too_far_forward", "lockout_incomplete"}

\* Thresholds.  KNEE_CAVE_THRESHOLD 0.05 is 50 in the model's 1/1000 units.
SQUAT_THRESHOLDS ==
  [STANDING_KNEE_ANGLE |-> 165, BOTTOM_KNEE_ANGLE_MIN |-> 70,
   BOTTOM_KNEE_ANGLE_MAX |-> 100, DESCENDING_THRESHOLD |-> 150,
   FORWARD_LEAN_ANGLE |-> 45, KNEE_CAVE_THRESHOLD |-> 50]

DEADLIFT_THRESHOLDS ==
  [STANDING_HIP_ANGLE |-> 165, BOTTOM_HIP_ANGLE |-> 90,
   ROUNDED_BACK_THRESHOLD |-> 30, KNEE_TRAVEL_MAX |-> 20]

\* The literal 0.15 of the squat knees-past-toes check, in 1/1000 units.
KNEE_FORWARD_MAX == 150

\* number | null: null is the empty tuple, a number n is <<n>>.
Null == << >>

\* getLandmark with an absent landmark read as the image centre.
getLandmark_absentIsCentre(landmarks, index) ==
  IF index \in DOMAIN landmarks.at
    THEN [x |-> landmarks.at[index].x, y |-> landmarks.at[index].y]
    ELSE [x |-> 500, y |-> 500]

\* A Landmark[] is [length, at]: at maps the indices that hold an element
\* to {x, y, visibility}; landmarks[i] is undefined for any other index.
\* getLandmark: the point of landmarks[index], or (0,0) when it is absent.
getLandmark(landmarks, index) ==
  IF index \in DOMAIN landmarks.at
    THEN [x |-> landmarks.at[index].x, y |-> landmarks.at[index].y]
    ELSE [x |-> 0, y |-> 0]

createPhaseTracker ==
  [previousPhase |-> "standing", previousKneeAngle |-> 180,
   repInProgress |-> FALSE, bottomReached |-> FALSE,
   initialKneeAngle |-> Null]

\* The landmark reads, midpoints and angles both analyzers start with, and
\* the offsets their checks read (part_002 lines 198-217, 255-256, 276, 359).
measureFrame(landmarks) ==
  LET leftShoulder  == getLandmark(landmarks, LEFT_SHOULDER)
      rightShoulder == getLandmark(landmarks, RIGHT_SHOULDER)
      leftHip       == getLandmark(landmarks, LEFT_HIP)
      rightHip      == getLandmark(landmarks, RIGHT_HIP)
      leftKnee      == getLandmark(landmarks, LEFT_KNEE)
      rightKnee     == getLandmark(landmarks, RIGHT_KNEE)
      leftAnkle     == getLandmark(landmarks, LEFT_ANKLE)
      rightAnkle    == getLandmark(landmarks, RIGHT_ANKLE)
      shoulder == getMidpoint(leftShoulder, rightShoulder)
      hip      == getMidpoint(leftHip, rightHip)
      knee     == getMidpoint(leftKnee, rightKnee)
      ankle    == getMidpoint(leftAnkle, rightAnkle)
  IN  [kneeAngle  |-> getKneeAngle(hip, knee, ankle),
       hipAngle   |-> getHipAngle(shoulder, hip, knee),
       torsoAngle |-> getTorsoAngle(shoulder, hip),
       leftKneeAnkleOffset  |-> leftKnee.x - leftAnkle.x,
       rightKneeAnkleOffset |-> rightKnee.x - rightAnkle.x,
       kneeForwardAmount    |-> knee.x - ankle.x,
       shoulderHipDiff      |-> shoulder.y - hip.y]

\* squatPhase whose bottom branch sets bottomReached alone.
squatPhase_bottomLeavesRepFlag(kneeAngle, tracker) ==
  IF kneeAngle >= SQUAT_THRESHOLDS.STANDING_KNEE_ANGLE
    THEN IF tracker.bottomReached /\ tracker.repInProgress
           THEN [phase |-> "standing", repCompleted |-> TRUE,
                 tracker |-> [tracker EXCEPT !.repInProgress = FALSE,
                                             !.bottomReached = FALSE]]
           ELSE [phase |-> "standing", repCompleted |-> FALSE,
                 tracker |-> tracker]
  ELSE IF kneeAngle <= SQUAT_THRESHOLDS.BOTTOM_KNEE_ANGLE_MAX
    THEN [phase |-> "bottom", repCompleted |-> FALSE,
          tracker |-> [tracker EXCEPT !.bottomReached = TRUE]]
  ELSE IF kneeAngle < tracker.previousKneeAngle
    THEN [phase |-> "descending", repCompleted |-> FALSE,
          tracker |-> [tracker EXCEPT !.repInProgress = TRUE]]
  ELSE [phase |-> "ascending", repCompleted |-> FALSE, tracker |-> tracker]

\* squatPhase with the completion test reading repInProgress alone.
squatPhase_anyDescentCounts(kneeAngle, tracker) ==
  IF kneeAngle >= SQUAT_THRESHOLDS.STANDING_KNEE_ANGLE
    THEN IF tracker.repInProgress
           THEN [phase |-> "standing", repCompleted |-> TRUE,
                 tracker |-> [tracker EXCEPT !.repInProgress = FALSE,
                                             !.bottomReached = FALSE]]
           ELSE [phase |-> "standing", repCompleted |-> FALSE,
                 tracker |-> tracker]
  ELSE IF kneeAngle <= SQUAT_THRESHOLDS.BOTTOM_KNEE_ANGLE_MAX
    THEN [phase |-> "bottom", repCompleted |-> FALSE,
          tracker |-> [tracker EXCEPT !.bottomReached = TRUE,
                                      !.repInProgress = TRUE]]
  ELSE IF kneeAngle < tracker.previousKneeAngle
    THEN [phase |-> "descending", repCompleted |-> FALSE,
          tracker |-> [tracker EXCEPT !.repInProgress = TRUE]]
  ELSE [phase |-> "ascending", repCompleted |-> FALSE, tracker |-> tracker]

\* squatPhase with the direction comparison reversed.
squatPhase_descendingOnRise(kneeAngle, tracker) ==
  IF kneeAngle >= SQUAT_THRESHOLDS.STANDING_KNEE_ANGLE
    THEN IF tracker.bottomReached /\ tracker.repInProgress
           THEN [phase |-> "standing", repCompleted |-> TRUE,
                 tracker |-> [tracker EXCEPT !.repInProgress = FALSE,
                                             !.bottomReached = FALSE]]
           ELSE [phase |-> "standing", repCompleted |-> FALSE,
                 tracker |-> tracker]
  ELSE IF kneeAngle <= SQUAT_THRESHOLDS.BOTTOM_KNEE_ANGLE_MAX
    THEN [phase |-> "bottom", repCompleted |-> FALSE,
          tracker |-> [tracker EXCEPT !.bottomReached = TRUE,
                                      !.repInProgress = TRUE]]
  ELSE IF kneeAngle > tracker.previousKneeAngle
    THEN [phase |-> "descending", repCompleted |-> FALSE,
          tracker |-> [tracker EXCEPT !.repInProgress = TRUE]]
  ELSE [phase |-> "ascending", repCompleted |-> FALSE, tracker |-> tracker]

\* squatPhase with the bottom branch reading DESCENDING_THRESHOLD.
squatPhase_bottomAtDescendingThreshold(kneeAngle, tracker) ==
  IF kneeAngle >= SQUAT_THRESHOLDS.STANDING_KNEE_ANGLE
    THEN IF tracker.bottomReached /\ tracker.repInProgress
           THEN [phase |-> "standing", repCompleted |-> TRUE,
                 tracker |-> [tracker EXCEPT !.repInProgress = FALSE,
                                             !.bottomReached = FALSE]]
           ELSE [phase |-> "standing", repCompleted |-> FALSE,
                 tracker |-> tracker]
  ELSE IF kneeAngle <= SQUAT_THRESHOLDS.DESCENDING_THRESHOLD
    THEN [phase |-> "bottom", repCompleted |-> FALSE,
          tracker |-> [tracker EXCEPT !.bottomReached = TRUE,
                                      !.repInProgress = TRUE]]
  ELSE IF kneeAngle < tracker.previousKneeAngle
    THEN [phase |-> "descending", repCompleted |-> FALSE,
          tracker |-> [tracker EXCEPT !.repInProgress = TRUE]]
  ELSE [phase |-> "ascending", repCompleted |-> FALSE, tracker |-> tracker]

\* analyzeSquatForm, "Determine phase": the phase, the repCompleted flag and
\* the tracker flags after the branch.
squatPhase(kneeAngle, tracker) ==
  IF kneeAngle >= SQUAT_THRESHOLDS.STANDING_KNEE_ANGLE
    THEN IF tracker.bottomReached /\ tracker.repInProgress
           THEN [phase |-> "standing", repCompleted |-> TRUE,
                 tracker |-> [tracker EXCEPT !.repInProgress = FALSE,
                                             !.bottomReached = FALSE]]
           ELSE [phase |-> "standing", repCompleted |-> FALSE,
                 tracker |-> tracker]
  ELSE IF kneeAngle <= SQUAT_THRESHOLDS.BOTTOM_KNEE_ANGLE_MAX
    THEN [phase |-> "bottom", repCompleted |-> FALSE,
          tracker |-> [tracker EXCEPT !.bottomReached = TRUE,
                                      !.repInProgress = TRUE]]
  ELSE IF kneeAngle < tracker.previousKneeAngle
    THEN [phase |-> "descending", repCompleted |-> FALSE,
          tracker |-> [tracker EXCEPT !.repInProgress = TRUE]]
  ELSE [phase |-> "ascending", repCompleted |-> FALSE, tracker |-> tracker]

\* squatIssues with the knees-past-toes check made outside standing, like the
\* two checks before it.
squatIssues_kneesForwardOutsideStanding(phase, m) ==
  LET depth == IF phase = "bottom"
                 THEN IF m.kneeAngle > SQUAT_THRESHOLDS.BOTTOM_KNEE_ANGLE_MAX
                        THEN <<"not_deep_enough">>
                      ELSE IF m.kneeAngle < SQUAT_THRESHOLDS.BOTTOM_KNEE_ANGLE_MIN
                        THEN <<"too_deep">>
                      ELSE << >>
                 ELSE << >>
      cave  == IF /\ phase # "standing"
                  /\ Abs(m.leftKneeAnkleOffset - m.rightKneeAnkleOffset)
                       > SQUAT_THRESHOLDS.KNEE_CAVE_THRESHOLD
                 THEN <<"knees_caving">> ELSE << >>
      lean  == IF /\ phase # "standing"
                  /\ m.torsoAngle > SQUAT_THRESHOLDS.FORWARD_LEAN_ANGLE
                 THEN <<"forward_lean">> ELSE << >>
      fwd   == IF /\ phase # "standing"
                  /\ Abs(m.kneeForwardAmount) > KNEE_FORWARD_MAX
                 THEN <<"knees_too_far_forward">> ELSE << >>
  IN  depth \o cave \o lean \o fwd

\* squatIssues with the forward-lean check made in every phase.
squatIssues_leanAnyPhase(phase, m) ==
  LET depth == IF phase = "bottom"
                 THEN IF m.kneeAngle > SQUAT_THRESHOLDS.BOTTOM_KNEE_ANGLE_MAX
                        THEN <<"not_deep_enough">>
                      ELSE IF m.kneeAngle < SQUAT_THRESHOLDS.BOTTOM_KNEE_ANGLE_MIN
                        THEN <<"too_deep">>
                      ELSE << >>
                 ELSE << >>
      cave  == IF /\ phase # "standing"
                  /\ Abs(m.leftKneeAnkleOffset - m.rightKneeAnkleOffset)
                       > SQUAT_THRESHOLDS.KNEE_CAVE_THRESHOLD
                 THEN <<"knees_caving">> ELSE << >>
      lean  == IF m.torsoAngle > SQUAT_THRESHOLDS.FORWARD_LEAN_ANGLE
                 THEN <<"forward_lean">> ELSE << >>
      fwd   == IF /\ phase \in {"bottom", "descending"}
                  /\ Abs(m.kneeForwardAmount) > KNEE_FORWARD_MAX
                 THEN <<"knees_too_far_forward">> ELSE << >>
  IN  depth \o cave \o lean \o fwd

\* squatIssues with the not_deep_enough test comparing against
\* BOTTOM_KNEE_ANGLE_MIN.
squatIssues_depthCeilingIsFloor(phase, m) ==
  LET depth == IF phase = "bottom"
                 THEN IF m.kneeAngle > SQUAT_THRESHOLDS.BOTTOM_KNEE_ANGLE_MIN
                        THEN <<"not_deep_enough">>
                      ELSE IF m.kneeAngle < SQUAT_THRESHOLDS.BOTTOM_KNEE_ANGLE_MIN
                        THEN <<"too_deep">>
                      ELSE << >>
                 ELSE << >>
      cave  == IF /\ phase # "standing"
                  /\ Abs(m.leftKneeAnkleOffset - m.rightKneeAnkleOffset)
                       > SQUAT_THRESHOLDS.KNEE_CAVE_THRESHOLD
                 THEN <<"knees_caving">> ELSE << >>
      lean  == IF /\ phase # "standing"
                  /\ m.torsoAngle > SQUAT_THRESHOLDS.FORWARD_LEAN_ANGLE
                 THEN <<"forward_lean">> ELSE << >>
      fwd   == IF /\ phase \in {"bottom", "descending"}
                  /\ Abs(m.kneeForwardAmount) > KNEE_FORWARD_MAX
                 THEN <<"knees_too_far_forward">> ELSE << >>
  IN  depth \o cave \o lean \o fwd

\* squatIssues without the too_deep branch.
squatIssues_noDepthFloor(phase, m) ==
  LET depth == IF phase = "bottom"
                 THEN IF m.kneeAngle > SQUAT_THRESHOLDS.BOTTOM_KNEE_ANGLE_MAX
                        THEN <<"not_deep_enough">>
                      ELSE << >>
                 ELSE << >>
      cave  == IF /\ phase # "standing"
                  /\ Abs(m.leftKneeAnkleOffset - m.rightKneeAnkleOffset)
                       > SQUAT_THRESHOLDS.KNEE_CAVE_THRESHOLD
                 THEN <<"knees_caving">> ELSE << >>
      lean  == IF /\ phase # "standing"
                  /\ m.torsoAngle > SQUAT_THRESHOLDS.FORWARD_LEAN_ANGLE
                 THEN <<"forward_lean">> ELSE << >>
      fwd   == IF /\ phase \in {"bottom", "descending"}
                  /\ Abs(m.kneeForwardAmount) > KNEE_FORWARD_MAX
                 THEN <<"knees_too_far_forward">> ELSE << >>
  IN  depth \o cave \o lean \o fwd

\* analyzeSquatForm, "Check form issues": the issues array, in push order.
squatIssues(phase, m) ==
  LET depth == IF phase = "bottom"
                 THEN IF m.kneeAngle > SQUAT_THRESHOLDS.BOTTOM_KNEE_ANGLE_MAX
                        THEN <<"not_deep_enough">>
                      ELSE IF m.kneeAngle < SQUAT_THRESHOLDS.BOTTOM_KNEE_ANGLE_MIN
                        THEN <<"too_deep">>
                      ELSE << >>
                 ELSE << >>
      cave  == IF /\ phase # "standing"
                  /\ Abs(m.leftKneeAnkleOffset - m.rightKneeAnkleOffset)
                       > SQUAT_THRESHOLDS.KNEE_CAVE_THRESHOLD
                 THEN <<"knees_caving">> ELSE << >>
      lean  == IF /\ phase # "standing"
                  /\ m.torsoAngle > SQUAT_THRESHOLDS.FORWARD_LEAN_ANGLE
                 THEN <<"forward_lean">> ELSE << >>
      fwd   == IF /\ phase \in {"bottom", "descending"}
                  /\ Abs(m.kneeForwardAmount) > KNEE_FORWARD_MAX
                 THEN <<"knees_too_far_forward">> ELSE << >>
  IN  depth \o cave \o lean \o fwd

\* formAnalysis with isGoodForm tolerating a single issue.
formAnalysis_oneIssueIsGood(issues, phase, repCompleted, m) ==
  [isGoodForm |-> Len(issues) <= 1, issues |-> issues, phase |-> phase,
   repCompleted |-> repCompleted, kneeAngle |-> m.kneeAngle,
   hipAngle |-> m.hipAngle]

\* The FormAnalysis both analyzers return.
formAnalysis(issues, phase, repCompleted, m) ==
  [isGoodForm |-> Len(issues) = 0, issues |-> issues, phase |-> phase,
   repCompleted |-> repCompleted, kneeAngle |-> m.kneeAngle,
   hipAngle |-> m.hipAngle]

\* squatForm leaving the tracker's previous angle as it was.
squatForm_keepsPreviousAngle(m, tracker) ==
  LET p == squatPhase(m.kneeAngle, tracker)
  IN  [analysis |-> formAnalysis(squatIssues(p.phase, m), p.phase,
                                 p.repCompleted, m),
       tracker  |-> [p.tracker EXCEPT !.previousPhase = p.phase]]

\* analyzeSquatForm on measurements m: the returned FormAnalysis and the
\* tracker as the call leaves it.
squatForm(m, tracker) ==
  LET p == squatPhase(m.kneeAngle, tracker)
  IN  [analysis |-> formAnalysis(squatIssues(p.phase, m), p.phase,
                                 p.repCompleted, m),
       tracker  |-> [p.tracker EXCEPT !.previousPhase = p.phase,
                                      !.previousKneeAngle = m.kneeAngle]]

\* deadliftPhase with the direction comparison reversed.
deadliftPhase_descendingOnRise(hipAngle, kneeAngle, tracker) ==
  IF hipAngle >= DEADLIFT_THRESHOLDS.STANDING_HIP_ANGLE
    THEN IF tracker.bottomReached /\ tracker.repInProgress
           THEN [phase |-> "standing", repCompleted |-> TRUE,
                 tracker |-> [tracker EXCEPT !.repInProgress = FALSE,
                                             !.bottomReached = FALSE,
                                             !.initialKneeAngle = Null]]
           ELSE [phase |-> "standing", repCompleted |-> FALSE,
                 tracker |-> tracker]
  ELSE IF hipAngle <= DEADLIFT_THRESHOLDS.BOTTOM_HIP_ANGLE + 20
    THEN [phase |-> "bottom", repCompleted |-> FALSE,
          tracker |-> [tracker EXCEPT !.bottomReached = TRUE,
                                      !.repInProgress = TRUE]]
  ELSE IF hipAngle > tracker.previousKneeAngle
    THEN [phase |-> "descending", repCompleted |-> FALSE,
          tracker |-> IF ~tracker.repInProgress
                        THEN [tracker EXCEPT !.repInProgress = TRUE,
                                             !.initialKneeAngle = <<kneeAngle>>]
                        ELSE tracker]
  ELSE [phase |-> "ascending", repCompleted |-> FALSE, tracker |-> tracker]

\* analyzeDeadliftForm, "Determine phase based on hip angle"; tracker is
\* the tracker after the initial-knee-angle step.
deadliftPhase(hipAngle, kneeAngle, tracker) ==
  IF hipAngle >= DEADLIFT_THRESHOLDS.STANDING_HIP_ANGLE
    THEN IF tracker.bottomReached /\ tracker.repInProgress
           THEN [phase |-> "standing", repCompleted |-> TRUE,
                 tracker |-> [tracker EXCEPT !.repInProgress = FALSE,
                                             !.bottomReached = FALSE,
                                             !.initialKneeAngle = Null]]
           ELSE [phase |-> "standing", repCompleted |-> FALSE,
                 tracker |-> tracker]
  ELSE IF hipAngle <= DEADLIFT_THRESHOLDS.BOTTOM_HIP_ANGLE + 20
    THEN [phase |-> "bottom", repCompleted |-> FALSE,
          tracker |-> [tracker EXCEPT !.bottomReached = TRUE,
                                      !.repInProgress = TRUE]]
  ELSE IF hipAngle < tracker.previousKneeAngle
    THEN [phase |-> "descending", repCompleted |-> FALSE,
          tracker |-> IF ~tracker.repInProgress
                        THEN [tracker EXCEPT !.repInProgress = TRUE,
                                             !.initialKneeAngle = <<kneeAngle>>]
                        ELSE tracker]
  ELSE [phase |-> "ascending", repCompleted |-> FALSE, tracker |-> tracker]

\* deadliftIssues with the knee-travel check made in every phase.
deadliftIssues_kneeTravelAnyPhase(phase, m, tracker) ==
  LET back == IF /\ phase # "standing"
                 /\ m.shoulderHipDiff
                      > 10 * DEADLIFT_THRESHOLDS.ROUNDED_BACK_THRESHOLD
                THEN <<"rounded_back">> ELSE << >>
      knees == IF /\ tracker.initialKneeAngle # Null
                  /\ Abs(m.kneeAngle - tracker.initialKneeAngle[1])
                       > DEADLIFT_THRESHOLDS.KNEE_TRAVEL_MAX
                 THEN <<"knees_too_far_forward">> ELSE << >>
      lock == IF /\ phase = "standing"
                 /\ m.hipAngle < DEADLIFT_THRESHOLDS.STANDING_HIP_ANGLE - 5
                THEN <<"lockout_incomplete">> ELSE << >>
  IN  back \o knees \o lock

\* deadliftIssues with the rounded-back check made a second time after the
\* knee-travel check.
deadliftIssues_backCheckedTwice(phase, m, tracker) ==
  LET back == IF /\ phase # "standing"
                 /\ m.shoulderHipDiff
                      > 10 * DEADLIFT_THRESHOLDS.ROUNDED_BACK_THRESHOLD
                THEN <<"rounded_back">> ELSE << >>
      knees == IF /\ phase = "ascending"
                  /\ tracker.initialKneeAngle # Null
                  /\ Abs(m.kneeAngle - tracker.initialKneeAngle[1])
                       > DEADLIFT_THRESHOLDS.KNEE_TRAVEL_MAX
                 THEN <<"knees_too_far_forward">> ELSE << >>
      lock == IF /\ phase = "standing"
                 /\ m.hipAngle < DEADLIFT_THRESHOLDS.STANDING_HIP_ANGLE - 5
                THEN <<"lockout_incomplete">> ELSE << >>
  IN  back \o knees \o back \o lock

\* analyzeDeadliftForm, the three checks; tracker is the tracker after the
\* phase step.  ROUNDED_BACK_THRESHOLD / 100 is a normalized length:
\* shoulderHipDiff / 1000 > T / 100  iff  shoulderHipDiff > 10 * T.
deadliftIssues(phase, m, tracker) ==
  LET back == IF /\ phase # "standing"
                 /\ m.shoulderHipDiff
                      > 10 * DEADLIFT_THRESHOLDS.ROUNDED_BACK_THRESHOLD
                THEN <<"rounded_back">> ELSE << >>
      knees == IF /\ phase = "ascending"
                  /\ tracker.initialKneeAngle # Null
                  /\ Abs(m.kneeAngle - tracker.initialKneeAngle[1])
                       > DEADLIFT_THRESHOLDS.KNEE_TRAVEL_MAX
                 THEN <<"knees_too_far_forward">> ELSE << >>
      lock == IF /\ phase = "standing"
                 /\ m.hipAngle < DEADLIFT_THRESHOLDS.STANDING_HIP_ANGLE - 5
                THEN <<"lockout_incomplete">> ELSE << >>
  IN  back \o knees \o lock

\* deadliftForm storing the knee angle in the tracker's previous-angle slot.
deadliftForm_storesKneeAngle(m, tracker) ==
  LET t0 == IF tracker.initialKneeAngle = Null
              THEN [tracker EXCEPT !.initialKneeAngle = <<m.kneeAngle>>]
              ELSE tracker
      p  == deadliftPhase(m.hipAngle, m.kneeAngle, t0)
  IN  [analysis |-> formAnalysis(deadliftIssues(p.phase, m, p.tracker),
                                 p.phase, p.repCompleted, m),
       tracker  |-> [p.tracker EXCEPT !.previousPhase = p.phase,
                                      !.previousKneeAngle = m.kneeAngle]]

\* analyzeDeadliftForm on measurements m.
deadliftForm(m, tracker) ==
  LET t0 == IF tracker.initialKneeAngle = Null
              THEN [tracker EXCEPT !.initialKneeAngle = <<m.kneeAngle>>]
              ELSE tracker
      p  == deadliftPhase(m.hipAngle, m.kneeAngle, t0)
  IN  [analysis |-> formAnalysis(deadliftIssues(p.phase, m, p.tracker),
                                 p.phase, p.repCompleted, m),
       tracker  |-> [p.tracker EXCEPT !.previousPhase = p.phase,
                                      !.previousKneeAngle = m.hipAngle]]

(***************************************************************************)
(* Input frames.  A side view of one person: the left and right landmark   *)
(* of each pair sit at the same point, except that the knees are pushed    *)
(* `spread` apart along x (left +spread, right -spread), which leaves the  *)
(* knee midpoint where it is.  Only the eight indices the analyzers read   *)
(* are listed; visibility is in percent and is never read by the engine.   *)
(***************************************************************************)
Pt(x, y) == [x |-> x, y |-> y]

Lm(p, dx, vis) == [x |-> p.x + dx, y |-> p.y, visibility |-> vis]

SideView(ankle, knee, hip, shoulder, spread, vis) ==
  [length |-> 33,
   at |-> (LEFT_SHOULDER :> Lm(shoulder, 0, vis)) @@
          (RIGHT_SHOULDER :> Lm(shoulder, 0, vis)) @@
          (LEFT_HIP :> Lm(hip, 0, vis)) @@ (RIGHT_HIP :> Lm(hip, 0, vis)) @@
          (LEFT_KNEE :> Lm(knee, spread, vis)) @@
          (RIGHT_KNEE :> Lm(knee, -spread, vis)) @@
          (LEFT_ANKLE :> Lm(ankle, 0, vis)) @@
          (RIGHT_ANKLE :> Lm(ankle, 0, vis))]

\* The catalogue; the number in a name is the knee angle (Hinge*: the hip
\* angle) the frame measures.
Upright == SideView(Pt(500, 900), Pt(500, 700), Pt(500, 500), Pt(500, 100), 0, 100)
UprightUnseen == SideView(Pt(500, 900), Pt(500, 700), Pt(500, 500), Pt(500, 100), 0, 0)
Edge165 == SideView(Pt(500, 900), Pt(517, 701), Pt(482, 504), Pt(517, 106), 0, 100)
Hinge168 == SideView(Pt(500, 900), Pt(500, 700), Pt(458, 504), Pt(458, 104), 0, 100)
Bend160 == SideView(Pt(500, 900), Pt(535, 703), Pt(500, 506), Pt(569, 112), 0, 100)
Bend150 == SideView(Pt(500, 900), Pt(552, 707), Pt(500, 514), Pt(569, 120), 0, 100)
Bend130Cave == SideView(Pt(500, 900), Pt(585, 719), Pt(500, 538), Pt(637, 162), 40, 100)
Bend120 == SideView(Pt(500, 900), Pt(600, 727), Pt(500, 554), Pt(700, 208), 0, 100)
Deep100 == SideView(Pt(500, 900), Pt(629, 747), Pt(500, 594), Pt(700, 248), 0, 100)
Deep70Lean == SideView(Pt(500, 900), Pt(664, 785), Pt(500, 670), Pt(806, 413), 0, 100)
Deep60 == SideView(Pt(500, 900), Pt(568, 712), Pt(371, 747), Pt(371, 347), 0, 100)
Folded == SideView(Pt(500, 900), Pt(535, 703), Pt(500, 506), Pt(700, 852), 0, 100)
Pull110 == SideView(Pt(500, 900), Pt(535, 703), Pt(362, 603), Pt(499, 227), 0, 100)

\* An array holding the face landmarks only: every index read is absent.
FaceOnly == [length |-> 11, at |-> << >>]
\* The empty array.
NoLandmarks == [length |-> 0, at |-> << >>]

Frames ==
  {Upright, UprightUnseen, Edge165, Hinge168, Bend160, Bend150,
   Bend130Cave, Bend120, Deep100, Deep70Lean, Deep60, Folded,
   Pull110, FaceOnly, NoLandmarks}

\* Four more inputs for direct calls of the analyzers: a frame whose ankle
\* indices are absent (the array ends before them), an upright frame with
\* the torso leaning 56 degrees and the knees spread, a frame with knee
\* angle 140 whose knees are 0.16 ahead of the ankles, and a frame with hip
\* angle 120 whose shoulders are 0.35 below the hips.
NoAnkles ==
  [length |-> 27,
   at |-> [i \in DOMAIN Bend150.at \ {LEFT_ANKLE, RIGHT_ANKLE}
             |-> Bend150.at[i]]]
StandLeanCave == SideView(Pt(500, 900), Pt(500, 700), Pt(500, 500), Pt(800, 300), 40, 100)
Rise140Forward == SideView(Pt(500, 900), Pt(660, 780), Pt(705, 585), Pt(705, 185), 0, 100)

Inverted120 == SideView(Pt(500, 900), Pt(673, 400), Pt(500, 500), Pt(500, 850), 0, 100)

EngineFrames ==
  Frames \cup {NoAnkles, StandLeanCave, Rise140Forward, Inverted120}

\* measureFrame tabulated over the catalogue (@@ makes TLC build the table
\* once instead of measuring again at every use).
Measured == [f \in EngineFrames |-> measureFrame(f)] @@ << >>

analyzeSquatForm(landmarks, tracker) == squatForm(Measured[landmarks], tracker)

analyzeDeadliftForm(landmarks, tracker) ==
  deadliftForm(Measured[landmarks], tracker)

\* analyzeForm: which analyzer the tag selects ...
routeOf(exercise) ==
  IF exercise = "squat" THEN "analyzeSquatForm" ELSE "analyzeDeadliftForm"

\* ... and the call.
analyzeForm(exercise, landmarks, tracker) ==
  IF routeOf(exercise) = "analyzeSquatForm"
    THEN analyzeSquatForm(landmarks, tracker)
    ELSE analyzeDeadliftForm(landmarks, tracker)

(***************************************************************************)
(* useFormChecker (src/unnamed/part_005): one workout session.             *)
(*                                                                         *)
(* React state.  Every setter call queues an update that the next render   *)
(* applies.  The numeric updaters (prev => prev + 1) and the plain values  *)
(* are pure, so a state variable of the model holds the value the next     *)
(* render will show.  The one updater that is not pure is setAllMistakes': *)
(* it reads currentRepIssuesRef when React runs it, which is at the next   *)
(* render (the component already has setAnalysis queued, so React does not *)
(* run it eagerly).  mergePending says such an updater is queued; Render   *)
(* runs it.                                                                *)
(***************************************************************************)
VARIABLES
  exercise,          \* the hook's argument
  tracker,           \* trackerRef.current
  analysis,          \* useState: the last FormAnalysis, or NoAnalysis
  currentPhase,      \* useState
  repCount,          \* useState
  goodFormCount,     \* useState
  badFormCount,      \* useState
  allMistakes,       \* useState: string[], kept as the set of its elements
                     \*   (it is Array.from of a Set; its order is not modelled)
  currentRepIssues,  \* currentRepIssuesRef.current: a Set
  mergePending,      \* a setAllMistakes updater waits for the next render
  lastCall,          \* history: the analyzer the last analyzed frame was
                     \*   routed to ("none" before the first frame)
  bottomSince,       \* history: a frame was classified bottom since the
                     \*   last repCompleted frame (or the tracker's creation)
  issuesSince,       \* history: the issues of the frames since the last
                     \*   repCompleted frame
  sessionIssues,     \* history: the issues of all frames of the session
  kneeBelow150,      \* history: some frame's knee angle was below 150
  sweep,             \* the scripted input of SpecSweep (unused by Spec)
  call,              \* SpecEngine: the last direct call of analyzeForm
                     \*   (its frame, the tracker before it, its result)
  pair,              \* SpecPair: two mounted hooks and the tracker objects
  voice,             \* SpecVoice: one useVoiceFeedback hook and the clock
  worker,            \* SpecWorker: the pose-detection worker and its mailbox
  client,            \* SpecClient: one GeminiLiveClient and its sockets
  page               \* SpecPage: the workout page's rep counters

vars == <<exercise, tracker, analysis, currentPhase, repCount, goodFormCount,
          badFormCount, allMistakes, currentRepIssues, mergePending,
          lastCall, bottomSince, issuesSince, sessionIssues, kneeBelow150,
          sweep, call, pair, voice, worker, client, page>>

\* The variables of one useFormChecker session and its scripted input.
hookVars ==
  <<exercise, tracker, analysis, currentPhase, repCount, goodFormCount,
    badFormCount, allMistakes, currentRepIssues, mergePending, lastCall,
    bottomSince, issuesSince, sessionIssues, kneeBelow150, sweep>>

\* Bounds of the model.
MaxReps == 2

\* FormAnalysis | null
NoAnalysis == [null |-> TRUE]

\* The tags a caller can pass at run time: TypeScript's Exercise type is
\* erased, so a tag outside it reaches analyzeForm unchecked.
Tags == Exercise \cup {"lunge"}

Range(seq) == {seq[i] : i \in 1..Len(seq)}

NoSweep == [on |-> FALSE]

NoCall == [made |-> FALSE]

\* The variables of the other specifications, at rest.
NoPair == [on |-> FALSE]

NoVoice == [on |-> FALSE]

NoWorker == [on |-> FALSE]

NoClient == [on |-> FALSE]

NoPage == [on |-> FALSE]

rest == <<worker, client, page>>
RestIdle == worker = NoWorker /\ client = NoClient /\ page = NoPage

aux == <<call, pair, voice, rest>>
AuxIdle == call = NoCall /\ pair = NoPair /\ voice = NoVoice /\ RestIdle

InitSession ==
  /\ tracker = createPhaseTracker
  /\ analysis = NoAnalysis
  /\ currentPhase = "standing"
  /\ repCount = 0
  /\ goodFormCount = 0
  /\ badFormCount = 0
  /\ allMistakes = {}
  /\ currentRepIssues = {}
  /\ mergePending = FALSE
  /\ lastCall = "none"
  /\ bottomSince = FALSE
  /\ issuesSince = {}
  /\ sessionIssues = {}
  /\ kneeBelow150 = FALSE

\* A session of the hook for one of the two exercises.
Init == exercise \in Exercise /\ InitSession /\ sweep = NoSweep /\ AuxIdle

\* A session whose caller passes any tag.
InitAnyTag ==
  exercise \in Tags /\ InitSession /\ sweep = NoSweep /\ AuxIdle

\* analyzeLandmarks(landmarks) on an empty array: returns null.
AnalyzeNothing(landmarks) ==
  /\ landmarks.length = 0
  /\ UNCHANGED vars

\* accumulate keeping the latest frame's issues only.
accumulate_latestFrameOnly(repIssues, issues) == Range(issues)

\* "Accumulate issues during the rep": the ref's Set after the forEach.
accumulate(repIssues, issues) == repIssues \cup Range(issues)

\* countRep with the good-form increment outside the else branch.
countRep_goodEveryRep(hadIssues, rep, good, bad) ==
  [repCount |-> rep + 1,
   goodFormCount |-> good + 1,
   badFormCount |-> IF hadIssues THEN bad + 1 ELSE bad]

\* "Handle rep completion": the three counters after a completed rep.
countRep(hadIssues, rep, good, bad) ==
  [repCount |-> rep + 1,
   goodFormCount |-> IF hadIssues THEN good ELSE good + 1,
   badFormCount |-> IF hadIssues THEN bad + 1 ELSE bad]

\* The state analyzeLandmarks(landmarks) leaves for a non-empty array.
analyzeLandmarks(landmarks) ==
  LET r   == analyzeForm(exercise, landmarks, tracker)
      res == r.analysis
      acc == accumulate(currentRepIssues, res.issues)
      hadIssues == Cardinality(acc) > 0
      counted == countRep(hadIssues, repCount, goodFormCount, badFormCount)
  IN  /\ tracker' = r.tracker
      /\ analysis' = res
      /\ currentPhase' = res.phase
      /\ IF res.repCompleted
           THEN /\ repCount' = counted.repCount
                /\ goodFormCount' = counted.goodFormCount
                /\ badFormCount' = counted.badFormCount
                /\ mergePending' = (mergePending \/ hadIssues)
                /\ currentRepIssues' = {}
           ELSE /\ currentRepIssues' = acc
                /\ UNCHANGED <<repCount, goodFormCount, badFormCount,
                               mergePending>>
      /\ UNCHANGED <<exercise, allMistakes>>
      /\ lastCall' = routeOf(exercise)
      /\ bottomSince' = IF res.repCompleted THEN FALSE
                        ELSE bottomSince \/ res.phase = "bottom"
      /\ issuesSince' = IF res.repCompleted THEN {}
                        ELSE issuesSince \cup Range(res.issues)
      /\ sessionIssues' = sessionIssues \cup Range(res.issues)
      /\ kneeBelow150' = (kneeBelow150 \/ res.kneeAngle < 150)

AnalyzeFrame(landmarks) ==
  /\ landmarks.length # 0
  /\ repCount < MaxReps
  /\ analyzeLandmarks(landmarks)
  /\ UNCHANGED <<sweep, aux>>

\* A render: React runs the queued setAllMistakes updater, which reads the
\* ref as it is now.
Render ==
  /\ mergePending
  /\ allMistakes' = allMistakes \cup currentRepIssues
  /\ mergePending' = FALSE
  /\ UNCHANGED <<exercise, tracker, analysis, currentPhase, repCount,
                 goodFormCount, badFormCount, currentRepIssues, lastCall,
                 bottomSince, issuesSince, sessionIssues, kneeBelow150,
                 sweep, aux>>

\* reset()
Reset ==
  /\ lastCall # "none"
  /\ tracker' = createPhaseTracker
  /\ currentRepIssues' = {}
  /\ analysis' = NoAnalysis
  /\ currentPhase' = "standing"
  /\ repCount' = 0
  /\ goodFormCount' = 0
  /\ badFormCount' = 0
  /\ allMistakes' = {}
  /\ mergePending' = FALSE
  /\ lastCall' = "none"
  /\ bottomSince' = FALSE
  /\ issuesSince' = {}
  /\ sessionIssues' = {}
  /\ kneeBelow150' = FALSE
  /\ UNCHANGED <<exercise, sweep, aux>>

Next ==
  \/ \E landmarks \in Frames : AnalyzeFrame(landmarks)
  \/ \E landmarks \in Frames : AnalyzeNothing(landmarks)
  \/ Render
  \/ Reset

Spec == Init /\ [][Next]_vars

SpecAnyTag == InitAnyTag /\ [][Next]_vars


(***************************************************************************)
(* A scripted squat: from a fresh tracker the knee angle starts at 180,    *)
(* never rises until it has come down to 70, and then never falls until it *)
(* is back at 180.  sweep.phases is the sequence of phases the frames were *)
(* given, a phase repeated on consecutive frames listed once; sweep.mid    *)
(* says a frame of the descent had its knee angle strictly between the     *)
(* bottom and the standing threshold.                                      *)
(***************************************************************************)
InitSweep ==
  /\ exercise = "squat"
  /\ InitSession
  /\ sweep = [on |-> TRUE, dir |-> "start", last |-> 180, phases |-> << >>,
              mid |-> FALSE]
  /\ AuxIdle

SweepFrame(landmarks) ==
  LET k == Measured[landmarks].kneeAngle
  IN  /\ sweep.on
      /\ landmarks.length # 0
      /\ \/ sweep.dir = "start" /\ k = 180
         \/ sweep.dir = "down" /\ k <= sweep.last /\ k >= 70
         \/ sweep.dir = "up" /\ k >= sweep.last
      /\ analyzeLandmarks(landmarks)
      /\ UNCHANGED aux
      /\ sweep' =
           [on |-> TRUE,
            dir |-> IF sweep.dir = "up"
                      THEN (IF k = 180 THEN "done" ELSE "up")
                      ELSE (IF k = 70 THEN "up" ELSE "down"),
            last |-> k,
            phases |-> IF sweep.phases # << >>
                          /\ sweep.phases[Len(sweep.phases)] = analysis'.phase
                         THEN sweep.phases
                         ELSE Append(sweep.phases, analysis'.phase),
            mid |-> \/ sweep.mid
                    \/ /\ sweep.dir = "down"
                       /\ k > SQUAT_THRESHOLDS.BOTTOM_KNEE_ANGLE_MAX
                       /\ k < SQUAT_THRESHOLDS.STANDING_KNEE_ANGLE]

NextSweep == \E landmarks \in Frames : SweepFrame(landmarks)

SpecSweep == InitSweep /\ [][NextSweep]_vars

(***************************************************************************)
(* The analyzers called directly: analyzeForm(exercise, landmarks, tracker)*)
(* on one tracker, frame after frame, for any landmark array (the empty    *)
(* one included: only the hook filters it).  call records the arguments    *)
(* and the returned FormAnalysis of the last call, and whether it was the  *)
(* first on this tracker; tracker is the object the call has mutated.  The *)
(* hook's state is not involved.                                           *)
(***************************************************************************)
InitEngine ==
  /\ exercise \in Exercise
  /\ InitSession
  /\ sweep = NoSweep
  /\ call = NoCall
  /\ pair = NoPair
  /\ voice = NoVoice
  /\ RestIdle

EngineCall(landmarks) ==
  LET r == analyzeForm(exercise, landmarks, tracker)
  IN  /\ tracker' = r.tracker
      /\ call' = [made |-> TRUE, first |-> ~call.made, frame |-> landmarks,
                  before |-> tracker, result |-> r.analysis]
      /\ UNCHANGED <<exercise, analysis, currentPhase, repCount,
                     goodFormCount, badFormCount, allMistakes,
                     currentRepIssues, mergePending, lastCall, bottomSince,
                     issuesSince, sessionIssues, kneeBelow150, sweep,
                     pair, voice, rest>>

NextEngine == \E landmarks \in EngineFrames : EngineCall(landmarks)

SpecEngine == InitEngine /\ [][NextEngine]_vars

(***************************************************************************)
(* Two workout sessions.  A tracker is an object: createPhaseTracker       *)
(* returns a new one, the hook keeps a reference to it in trackerRef, and  *)
(* the analyzers mutate the object they are handed.  pair.heap holds the   *)
(* tracker objects by reference, pair.session the two mounted hooks, and   *)
(* pair.alone, for each of the two, the state it has when the same frames  *)
(* are fed to it with no other session around.                             *)
(***************************************************************************)
MaxPairReps == 2

PairFrames == {Upright, Bend150, Bend130Cave, Deep100}

\* createPhaseTracker with one module-level tracker handed to every caller.
allocTracker_moduleSingleton(heap) ==
  IF heap = << >>
    THEN [heap |-> <<createPhaseTracker>>, ref |-> 1]
    ELSE [heap |-> heap, ref |-> 1]

\* createPhaseTracker(): a new object on the heap, and the reference to it.
allocTracker(heap) ==
  [heap |-> Append(heap, createPhaseTracker), ref |-> Len(heap) + 1]

\* useFormChecker(ex) at mount, its trackerRef pointing at ref.
mountSession(ex, ref) ==
  [exercise |-> ex, trackerRef |-> ref, analysis |-> NoAnalysis,
   repCount |-> 0, goodFormCount |-> 0, badFormCount |-> 0,
   currentRepIssues |-> {}]

\* analyzeLandmarks(landmarks) of the hook `session`, whose trackerRef
\* points at an object with value `t`: the hook and the object afterwards.
sessionStep(session, t, landmarks) ==
  LET r   == analyzeForm(session.exercise, landmarks, t)
      res == r.analysis
      acc == accumulate(session.currentRepIssues, res.issues)
      counted == countRep(Cardinality(acc) > 0, session.repCount,
                          session.goodFormCount, session.badFormCount)
  IN  [tracker |-> r.tracker,
       session |->
         IF res.repCompleted
           THEN [session EXCEPT !.analysis = res,
                                !.repCount = counted.repCount,
                                !.goodFormCount = counted.goodFormCount,
                                !.badFormCount = counted.badFormCount,
                                !.currentRepIssues = {}]
           ELSE [session EXCEPT !.analysis = res,
                                !.currentRepIssues = acc]]

InitPair ==
  /\ exercise = "squat"
  /\ InitSession
  /\ sweep = NoSweep
  /\ call = NoCall
  /\ voice = NoVoice
  /\ RestIdle
  /\ \E e1 \in Exercise, e2 \in Exercise :
       LET a1 == allocTracker(<< >>)
           a2 == allocTracker(a1.heap)
       IN  pair = [on |-> TRUE,
                   heap |-> a2.heap,
                   session |-> <<mountSession(e1, a1.ref),
                                 mountSession(e2, a2.ref)>>,
                   alone |-> <<[session |-> mountSession(e1, a1.ref),
                                tracker |-> createPhaseTracker],
                               [session |-> mountSession(e2, a2.ref),
                                tracker |-> createPhaseTracker]>>]

PairFrame(s, landmarks) ==
  LET ref == pair.session[s].trackerRef
      st  == sessionStep(pair.session[s], pair.heap[ref], landmarks)
      so  == sessionStep(pair.alone[s].session, pair.alone[s].tracker,
                         landmarks)
  IN  /\ pair.on
      /\ landmarks.length # 0
      /\ pair.session[s].repCount < MaxPairReps
      /\ pair' = [pair EXCEPT !.heap[ref] = st.tracker,
                              !.session[s] = st.session,
                              !.alone[s] = so]
      /\ UNCHANGED <<exercise, tracker, analysis, currentPhase, repCount,
                     goodFormCount, badFormCount, allMistakes,
                     currentRepIssues, mergePending, lastCall, bottomSince,
                     issuesSince, sessionIssues, kneeBelow150, sweep, call,
                     voice, rest>>

NextPair == \E s \in {1, 2}, landmarks \in PairFrames : PairFrame(s, landmarks)

SpecPair == InitPair /\ [][NextPair]_vars


(***************************************************************************)
(* useVoiceFeedback (src/src/hooks/use-voice-feedback.ts).                 *)
(*                                                                         *)
(* lastSpokenRef.current is a plain object literal used as a map from      *)
(* feedback keys to Date.now() values.  A plain object inherits from       *)
(* Object.prototype: reading a key it does not own gives the inherited     *)
(* member if there is one (a function or an object, not a number), and     *)
(* "__proto__" is an inherited accessor - reading it gives the prototype   *)
(* object, and assigning a number to it is ignored.  Arithmetic on such a  *)
(* value gives NaN, and every comparison with NaN is false.                *)
(*                                                                         *)
(* voice.now is Date.now() in ms; it starts at DEBOUNCE_MS, the real clock *)
(* being far past it.  voice.uttered is history: per feedback key, the     *)
(* times of its last two utterances; voice.outcome is what the last speak  *)
(* call did.                                                               *)
(***************************************************************************)
DEBOUNCE_MS == 3000

REP_FEEDBACK_DEBOUNCE_MS == 1500

\* Number of clock advances in a run.
MaxTicks == 3

\* The clock advances between calls.
TickMs == {1499, 1500}

\* Arguments of speak: the text, and the key ("" for an omitted key).
Texts == {"Go deeper"}
Keys == {"", "constructor", "__proto__"}

\* Members every plain object inherits (two of them).
InheritedKeys == {"constructor", "__proto__"}

Number(n) == [isNumber |-> TRUE, n |-> n]
NotANumber == [isNumber |-> FALSE]

\* lastSpokenRef.current[feedbackKey] || 0
lastSpokenOf(own, feedbackKey) ==
  IF feedbackKey = "__proto__" THEN NotANumber
  ELSE IF feedbackKey \in DOMAIN own THEN Number(own[feedbackKey])
  ELSE IF feedbackKey \in InheritedKeys THEN NotANumber
  ELSE Number(0)

\* now - lastSpoken < DEBOUNCE_MS
withinDebounce(now, lastSpoken) ==
  lastSpoken.isNumber /\ now - lastSpoken.n < DEBOUNCE_MS

\* lastSpokenRef.current[feedbackKey] = now
storeLastSpoken(own, feedbackKey, now) ==
  IF feedbackKey = "__proto__"
    THEN own
    ELSE [k \in DOMAIN own \cup {feedbackKey}
            |-> IF k = feedbackKey THEN now ELSE own[k]]

InitVoice ==
  /\ exercise = "squat"
  /\ InitSession
  /\ sweep = NoSweep
  /\ call = NoCall
  /\ pair = NoPair
  /\ RestIdle
  /\ \E supported \in BOOLEAN :
       voice = [on |-> TRUE, now |-> DEBOUNCE_MS, ticks |-> 0,
                lastSpoken |-> << >>, isEnabled |-> TRUE,
                isSupported |-> supported, uttered |-> << >>,
                outcome |-> "none"]

\* Everything but voice.
notVoice ==
  <<exercise, tracker, analysis, currentPhase, repCount, goodFormCount,
    badFormCount, allMistakes, currentRepIssues, mergePending, lastCall,
    bottomSince, issuesSince, sessionIssues, kneeBelow150, sweep, call,
    pair, rest>>

\* speak(text, key)
Speak(text, key) ==
  LET feedbackKey == IF key = "" THEN text ELSE key
      lastSpoken  == lastSpokenOf(voice.lastSpoken, feedbackKey)
      before      == IF feedbackKey \in DOMAIN voice.uttered
                       THEN voice.uttered[feedbackKey] ELSE << >>
      after       == IF before = << >> THEN <<voice.now>>
                     ELSE <<before[Len(before)], voice.now>>
  IN  /\ voice.on
      /\ IF ~voice.isSupported
           THEN voice' = [voice EXCEPT !.outcome = "unsupported"]
         ELSE IF ~voice.isEnabled
           THEN voice' = [voice EXCEPT !.outcome = "disabled"]
         ELSE IF withinDebounce(voice.now, lastSpoken)
           THEN voice' = [voice EXCEPT !.outcome = "debounced"]
         ELSE voice' =
                [voice EXCEPT
                   !.outcome = "uttered",
                   !.lastSpoken =
                      storeLastSpoken(voice.lastSpoken, feedbackKey,
                                      voice.now),
                   !.uttered =
                      [k \in DOMAIN voice.uttered \cup {feedbackKey}
                         |-> IF k = feedbackKey THEN after
                             ELSE voice.uttered[k]]]
      /\ UNCHANGED notVoice

\* setEnabled(enabled); the next render re-creates speak with the value.
SetEnabled(enabled) ==
  /\ voice.on
  /\ voice.isEnabled # enabled
  /\ voice' = [voice EXCEPT !.isEnabled = enabled]
  /\ UNCHANGED notVoice

\* Time passes.
Tick(ms) ==
  /\ voice.on
  /\ voice.ticks < MaxTicks
  /\ voice' = [voice EXCEPT !.now = voice.now + ms, !.ticks = voice.ticks + 1]
  /\ UNCHANGED notVoice

\* speakRepComplete(isGoodForm): its own test against
\* REP_FEEDBACK_DEBOUNCE_MS, then speak(message, "rep_complete").
SpeakRepComplete(isGoodForm) ==
  LET lastSpoken == lastSpokenOf(voice.lastSpoken, "rep_complete")
      message    == IF isGoodForm THEN "Good rep!" ELSE "Watch your form"
  IN  /\ voice.on
      /\ IF /\ lastSpoken.isNumber
            /\ voice.now - lastSpoken.n < REP_FEEDBACK_DEBOUNCE_MS
           THEN /\ voice' = [voice EXCEPT !.outcome = "rep debounced"]
                /\ UNCHANGED notVoice
           ELSE Speak(message, "rep_complete")

NextVoice ==
  \/ \E text \in Texts, key \in Keys : Speak(text, key)
  \/ \E enabled \in BOOLEAN : SetEnabled(enabled)
  \/ \E ms \in TickMs : Tick(ms)

SpecVoice == InitVoice /\ [][NextVoice]_vars

\* The hook as the workout uses it: rep-completion messages, issue messages
\* under their own keys, the voice switch, and time.
NextRepVoice ==
  \/ \E isGoodForm \in BOOLEAN : SpeakRepComplete(isGoodForm)
  \/ \E text \in Texts : Speak(text, "")
  \/ \E enabled \in BOOLEAN : SetEnabled(enabled)
  \/ \E ms \in TickMs : Tick(ms)

SpecRepVoice == InitVoice /\ [][NextRepVoice]_vars

(***************************************************************************)
(* The pose-detection worker (src/src/workers/pose-detection.worker.ts).   *)
(*                                                                         *)
(* The worker's event loop runs one piece of JavaScript at a time: a       *)
(* message handler runs until it returns or reaches an await, and the      *)
(* continuation of an await runs as a later task.  So a message can be     *)
(* handled while initializePoseLandmarker is suspended at either of its    *)
(* two awaits.  worker.init is where the one initialization in flight is   *)
(* suspended; worker.posted is the log of the messages posted to the page; *)
(* worker.destroyed and worker.readySince are history: a DESTROY has been  *)
(* handled and no INIT message has arrived since, and READY was posted     *)
(* since that DESTROY.                                                     *)
(***************************************************************************)
\* Number of messages the page sends in a run.
MaxMessages == 4

WorkerMessageIn == {"INIT", "DETECT", "DESTROY"}

InitWorker ==
  /\ exercise = "squat"
  /\ InitSession
  /\ sweep = NoSweep
  /\ call = NoCall
  /\ pair = NoPair
  /\ voice = NoVoice
  /\ client = NoClient
  /\ page = NoPage
  /\ worker = [on |-> TRUE, poseLandmarker |-> FALSE,
               isInitializing |-> FALSE, init |-> "none", handled |-> 0,
               posted |-> << >>, destroyed |-> FALSE, readySince |-> FALSE]

notWorker == <<hookVars, call, pair, voice, client, page>>

postMessage(w, type) == [w EXCEPT !.posted = Append(w.posted, type)]

\* initializePoseLandmarker(), up to its first await.
initializePoseLandmarker(w) ==
  IF w.poseLandmarker \/ w.isInitializing
    THEN w
    ELSE [w EXCEPT !.isInitializing = TRUE, !.init = "forVisionTasks"]

\* detectPose(imageData, timestamp); thrown says detection threw.
detectPose(w, thrown) ==
  IF ~w.poseLandmarker THEN postMessage(w, "DETECTION_ERROR")
  ELSE IF thrown THEN postMessage(w, "DETECTION_ERROR")
  ELSE postMessage(w, "RESULT")

\* destroyPoseLandmarker()
destroyPoseLandmarker(w) ==
  postMessage([w EXCEPT !.poseLandmarker = FALSE], "DESTROYED")

\* self.onmessage for one message.
OnMessage(type, thrown) ==
  /\ worker.on
  /\ worker.handled < MaxMessages
  /\ LET w == [worker EXCEPT !.handled = worker.handled + 1]
     IN  worker' =
           IF type = "INIT"
             THEN [initializePoseLandmarker(w) EXCEPT !.destroyed = FALSE,
                                                      !.readySince = FALSE]
           ELSE IF type = "DETECT" THEN detectPose(w, thrown)
           ELSE [destroyPoseLandmarker(w) EXCEPT !.destroyed = TRUE,
                                                 !.readySince = FALSE]
  /\ UNCHANGED notWorker

\* FilesetResolver.forVisionTasks settles.
VisionSettles(ok) ==
  /\ worker.on
  /\ worker.init = "forVisionTasks"
  /\ worker' =
       IF ok THEN [worker EXCEPT !.init = "createFromOptions"]
       ELSE [postMessage(worker, "INIT_ERROR") EXCEPT
               !.init = "none", !.isInitializing = FALSE]
  /\ UNCHANGED notWorker

\* PoseLandmarker.createFromOptions settles.
CreateSettles(ok) ==
  /\ worker.on
  /\ worker.init = "createFromOptions"
  /\ worker' =
       IF ok
         THEN [postMessage(worker, "READY") EXCEPT
                 !.poseLandmarker = TRUE, !.init = "none",
                 !.isInitializing = FALSE, !.readySince = worker.destroyed]
         ELSE [postMessage(worker, "INIT_ERROR") EXCEPT
                 !.init = "none", !.isInitializing = FALSE]
  /\ UNCHANGED notWorker

NextWorker ==
  \/ \E type \in WorkerMessageIn, thrown \in BOOLEAN : OnMessage(type, thrown)
  \/ \E ok \in BOOLEAN : VisionSettles(ok)
  \/ \E ok \in BOOLEAN : CreateSettles(ok)

SpecWorker == InitWorker /\ [][NextWorker]_vars

(***************************************************************************)
(* GeminiLiveClient (src/unnamed/part_001): one client object.             *)
(*                                                                         *)
(* client.sockets is every WebSocket the client has created, in order;     *)
(* each keeps its readyState, whether its error event has fired, and the   *)
(* promise of the connect() call that created it (its handlers close over  *)
(* that call's resolve and reject).  client.ws is the index of the socket  *)
(* this.ws refers to, 0 for null.  A socket's events are delivered as      *)
(* tasks of their own, so a socket that close() has put in CLOSING         *)
(* delivers its close event at some later time, after any amount of other  *)
(* code has run.  A socket in CLOSING delivers no message events.  A       *)
(* socket on which close() is called while it is CONNECTING has failed:    *)
(* it delivers its error event before its close event.  The URL is taken   *)
(* to be well formed, so new WebSocket does not throw.                     *)
(***************************************************************************)
\* Number of connect() calls in a run.
MaxSockets == 3

maxReconnectAttempts == 3

InitClient ==
  /\ exercise = "squat"
  /\ InitSession
  /\ sweep = NoSweep
  /\ call = NoCall
  /\ pair = NoPair
  /\ voice = NoVoice
  /\ worker = NoWorker
  /\ page = NoPage
  /\ client = [on |-> TRUE, ws |-> 0, state |-> "disconnected",
               setupComplete |-> FALSE, reconnectAttempts |-> 0,
               sockets |-> << >>]

notClient == <<hookVars, call, pair, voice, worker, page>>

\* ws.close() on socket i.
closeSocket(sockets, i) ==
  IF sockets[i].readyState \in {"CLOSING", "CLOSED"}
    THEN sockets
    ELSE [sockets EXCEPT
            ![i].readyState = "CLOSING",
            ![i].failed = sockets[i].readyState = "CONNECTING"]

\* disconnect()
disconnect(c) ==
  [c EXCEPT !.sockets = IF c.ws # 0 THEN closeSocket(c.sockets, c.ws)
                        ELSE c.sockets,
            !.ws = 0,
            !.state = "disconnected",
            !.setupComplete = FALSE]

\* A promise settles once: later resolve and reject calls do nothing.
settle(sockets, i, how) ==
  IF sockets[i].promise = "pending"
    THEN [sockets EXCEPT ![i].promise = how]
    ELSE sockets

\* connect(sessionResponse)
Connect ==
  /\ client.on
  /\ Len(client.sockets) < MaxSockets
  /\ LET c == IF client.ws # 0 THEN disconnect(client) ELSE client
     IN  client' =
           [c EXCEPT !.state = "connecting",
                     !.sockets = Append(c.sockets,
                                        [readyState |-> "CONNECTING",
                                         failed |-> FALSE,
                                         errored |-> FALSE,
                                         promise |-> "pending"]),
                     !.ws = Len(c.sockets) + 1]
  /\ UNCHANGED notClient

\* disconnect() called by the page.
Disconnect ==
  /\ client.on
  /\ client.sockets # << >>
  /\ client' = disconnect(client)
  /\ client' # client
  /\ UNCHANGED notClient

\* Socket i opens: onopen sends the setup message, which changes nothing in
\* the client.
SocketOpen(i) ==
  /\ client.on
  /\ i \in DOMAIN client.sockets
  /\ client.sockets[i].readyState = "CONNECTING"
  /\ client' = [client EXCEPT !.sockets[i].readyState = "OPEN"]
  /\ UNCHANGED notClient

\* Socket i delivers the setupComplete message: onmessage, handleMessage.
SocketSetupComplete(i) ==
  /\ client.on
  /\ i \in DOMAIN client.sockets
  /\ client.sockets[i].readyState = "OPEN"
  /\ client' = [client EXCEPT !.setupComplete = TRUE,
                              !.state = "connected",
                              !.reconnectAttempts = 0,
                              !.sockets = settle(client.sockets, i, "resolved")]
  /\ client' # client
  /\ UNCHANGED notClient

\* Socket i delivers its error event (the connection has failed; its close
\* event follows): onerror.
SocketError(i) ==
  /\ client.on
  /\ i \in DOMAIN client.sockets
  /\ client.sockets[i].readyState # "CLOSED"
  /\ ~client.sockets[i].errored
  /\ client' =
       [client EXCEPT
          !.state = "error",
          !.sockets = [settle(client.sockets, i, "rejected") EXCEPT
                         ![i].errored = TRUE,
                         ![i].failed = TRUE,
                         ![i].readyState = "CLOSING"]]
  /\ UNCHANGED notClient

\* Socket i delivers its close event: onclose.
SocketClose(i) ==
  /\ client.on
  /\ i \in DOMAIN client.sockets
  /\ client.sockets[i].readyState \in {"OPEN", "CLOSING"}
  /\ client.sockets[i].failed => client.sockets[i].errored
  /\ client' =
       [client EXCEPT
          !.reconnectAttempts =
             IF /\ client.state = "connected"
                /\ client.reconnectAttempts < maxReconnectAttempts
               THEN client.reconnectAttempts + 1
               ELSE client.reconnectAttempts,
          !.state = "disconnected",
          !.setupComplete = FALSE,
          !.sockets[i].readyState = "CLOSED"]
  /\ UNCHANGED notClient

\* An event of socket i.
SocketEvent(i) ==
  \/ SocketOpen(i)
  \/ SocketSetupComplete(i)
  \/ SocketError(i)
  \/ SocketClose(i)

NextClient ==
  \/ Connect
  \/ Disconnect
  \/ \E i \in 1..MaxSockets : SocketOpen(i)
  \/ \E i \in 1..MaxSockets : SocketSetupComplete(i)
  \/ \E i \in 1..MaxSockets : SocketError(i)
  \/ \E i \in 1..MaxSockets : SocketClose(i)

SpecClient == InitClient /\ [][NextClient]_vars

\* Every socket that can deliver an event eventually delivers one: a socket
\* does not stay CONNECTING, OPEN without traffic, or CLOSING for ever.
SpecClientLive ==
  SpecClient /\ \A i \in 1..MaxSockets : WF_vars(SocketEvent(i))

(***************************************************************************)
(* The workout page's manual rep counters                                  *)
(* (src/src/app/workout/[exercise]/page.tsx, WorkoutContent).              *)
(*                                                                         *)
(* Every setter is called with an updater (prev => prev + 1), which React  *)
(* applies to the latest queued value: page.repCount, page.goodFormCount   *)
(* and page.badFormCount are those values.  removeRep also reads the three *)
(* counts directly; a callback reads the values of the render that created *)
(* it, which are page.rendered.  RenderPage is the re-render that creates  *)
(* the callbacks anew.                                                     *)
(***************************************************************************)
\* Number of button callbacks invoked in a run.
MaxClicks == 5

InitPage ==
  /\ exercise = "squat"
  /\ InitSession
  /\ sweep = NoSweep
  /\ call = NoCall
  /\ pair = NoPair
  /\ voice = NoVoice
  /\ worker = NoWorker
  /\ client = NoClient
  /\ page = [on |-> TRUE, repCount |-> 0, goodFormCount |-> 0,
             badFormCount |-> 0,
             rendered |-> [repCount |-> 0, goodFormCount |-> 0,
                           badFormCount |-> 0],
             clicks |-> 0]

notPage == <<hookVars, call, pair, voice, worker, client>>

\* addGoodRep()
addGoodRep(p) ==
  [p EXCEPT !.repCount = p.repCount + 1,
            !.goodFormCount = p.goodFormCount + 1]

\* addBadRep()
addBadRep(p) ==
  [p EXCEPT !.repCount = p.repCount + 1,
            !.badFormCount = p.badFormCount + 1]

\* removeRep()
removeRep(p) ==
  IF p.rendered.repCount > 0
    THEN IF p.rendered.goodFormCount > 0
           THEN [p EXCEPT !.repCount = p.repCount - 1,
                          !.goodFormCount = p.goodFormCount - 1]
         ELSE IF p.rendered.badFormCount > 0
           THEN [p EXCEPT !.repCount = p.repCount - 1,
                          !.badFormCount = p.badFormCount - 1]
         ELSE [p EXCEPT !.repCount = p.repCount - 1]
    ELSE p

Click(callback) ==
  /\ page.on
  /\ page.clicks < MaxClicks
  /\ LET p == [page EXCEPT !.clicks = page.clicks + 1]
     IN  page' = IF callback = "addGoodRep" THEN addGoodRep(p)
                 ELSE IF callback = "addBadRep" THEN addBadRep(p)
                 ELSE removeRep(p)
  /\ UNCHANGED notPage

\* React renders WorkoutContent with the queued updates applied.
RenderPage ==
  /\ page.on
  /\ page.rendered # [repCount |-> page.repCount,
                      goodFormCount |-> page.goodFormCount,
                      badFormCount |-> page.badFormCount]
  /\ page' = [page EXCEPT !.rendered = [repCount |-> page.repCount,
                                        goodFormCount |-> page.goodFormCount,
                                        badFormCount |-> page.badFormCount]]
  /\ UNCHANGED notPage

NextPage ==
  \/ \E callback \in {"addGoodRep", "addBadRep", "removeRep"} : Click(callback)
  \/ RenderPage

SpecPage == InitPage /\ [][NextPage]_vars

(***************************************************************************)
(* Properties of the rep counting, checked under Spec.                     *)
(***************************************************************************)

\* A step that is one call of analyzeLandmarks on a non-empty array.
FrameStep == \E landmarks \in Frames : AnalyzeFrame(landmarks)

\* C1: for both analyzers a frame has repCompleted = TRUE exactly when the
\* frame is classified standing and some frame since the previous
\* repCompleted frame (or since the tracker was created) was classified
\* bottom; and the frame after a repCompleted frame never has repCompleted.
C1_RepCompletedIffStandingAfterBottom ==
  [][FrameStep =>
       /\ analysis'.repCompleted
            <=> (analysis'.phase = "standing" /\ bottomSince)
       /\ (analysis # NoAnalysis /\ analysis.repCompleted)
            => ~analysis'.repCompleted]_vars

\* A second deadlift rep has just been completed.
C1_Witness ==
  /\ lastCall = "analyzeDeadliftForm"
  /\ analysis.repCompleted
  /\ analysis.phase = "standing"
  /\ repCount = 2

\* C2: repCount = goodFormCount + badFormCount after every step; a frame
\* with repCompleted raises repCount by one and exactly one of goodFormCount
\* and badFormCount by one; any other frame leaves the three unchanged.
C2_CountsAddUp ==
  [][/\ repCount' = goodFormCount' + badFormCount'
     /\ FrameStep =>
          IF analysis'.repCompleted
            THEN /\ repCount' = repCount + 1
                 /\ \/ /\ goodFormCount' = goodFormCount + 1
                       /\ badFormCount' = badFormCount
                    \/ /\ goodFormCount' = goodFormCount
                       /\ badFormCount' = badFormCount + 1
            ELSE UNCHANGED <<repCount, goodFormCount, badFormCount>>]_vars

\* A frame inside the second rep, after a first rep counted bad.
C2_Witness ==
  /\ repCount = 1
  /\ badFormCount = 1
  /\ goodFormCount = 0
  /\ analysis # NoAnalysis
  /\ ~analysis.repCompleted
  /\ analysis.phase = "bottom"

\* C3: a completed rep is counted bad exactly when some frame after the
\* previous repCompleted frame, up to and including the completing frame,
\* reported an issue, and good otherwise; the per-rep accumulator is empty
\* after every completing frame.
C3_BadIffIssueDuringRep ==
  [][(FrameStep /\ analysis'.repCompleted) =>
       LET seen == issuesSince \cup Range(analysis'.issues)
       IN  /\ (badFormCount' = badFormCount + 1) <=> (seen # {})
           /\ (goodFormCount' = goodFormCount + 1) <=> (seen = {})
           /\ currentRepIssues' = {}]_vars

\* Two reps completed, one counted good and one counted bad.
C3_Witness ==
  /\ repCount = 2
  /\ goodFormCount = 1
  /\ badFormCount = 1
  /\ analysis.repCompleted
  /\ currentRepIssues = {}

\* C4: allMistakes is the set of all distinct issues reported in any frame
\* of the session so far.  Read where the hook has had its chance to merge:
\* the last rep boundary has been rendered and no frame since has reported
\* an issue.
C4_AllMistakesIsEveryIssueSeen ==
  (~mergePending /\ issuesSince = {}) => allMistakes = sessionIssues

\* C5: isGoodForm is TRUE exactly when the issues list is empty.
C5_GoodFormIffNoIssues ==
  analysis # NoAnalysis
    => (analysis.isGoodForm <=> analysis.issues = << >>)

\* A frame that reported two issues.
C5_Witness ==
  /\ analysis # NoAnalysis
  /\ Len(analysis.issues) = 2
  /\ ~analysis.isGoodForm

\* C6: in a squat session whose knee angle has never been below 150, no
\* frame has been classified bottom, bottomReached is FALSE and no frame
\* has had repCompleted.
C6_ShallowSquatNeverCounts ==
  (lastCall = "analyzeSquatForm" /\ ~kneeBelow150)
    => /\ ~tracker.bottomReached
       /\ ~bottomSince
       /\ analysis.phase # "bottom"
       /\ ~analysis.repCompleted
       /\ repCount = 0

\* A squat that went down to 150 and came back up to standing.
C6_Witness ==
  /\ lastCall = "analyzeSquatForm"
  /\ ~kneeBelow150
  /\ tracker.repInProgress
  /\ analysis.phase = "standing"


(***************************************************************************)
(* Properties of the scripted squat, checked under SpecSweep.              *)
(***************************************************************************)

\* pattern occurs in seq in order, other elements allowed in between.
RECURSIVE VisitsInOrder(_, _)
VisitsInOrder(pattern, seq) ==
  IF pattern = << >> THEN TRUE
  ELSE IF seq = << >> THEN FALSE
  ELSE IF Head(pattern) = Head(seq)
    THEN VisitsInOrder(Tail(pattern), Tail(seq))
  ELSE VisitsInOrder(pattern, Tail(seq))

SquatCycle == <<"standing", "descending", "bottom", "standing">>

\* C7 as stated: a squat whose knee angle goes monotonically from 180 down
\* to 70 and back up to 180 visits standing, then descending, then bottom,
\* then standing.
C7_SweepVisitsTheCycle ==
  (sweep.on /\ sweep.dir = "done")
    => VisitsInOrder(SquatCycle, sweep.phases)

\* C7 amended: the same, for a sweep whose descent has a frame with its
\* knee angle strictly between 100 and 165.
C7_SweepWithMidFrameVisitsTheCycle ==
  (sweep.on /\ sweep.dir = "done" /\ sweep.mid)
    => VisitsInOrder(SquatCycle, sweep.phases)

\* A finished sweep that was sampled between the thresholds on both ways.
C7_Witness ==
  /\ sweep.on
  /\ sweep.dir = "done"
  /\ sweep.mid
  /\ sweep.phases = <<"standing", "descending", "bottom", "ascending",
                      "standing">>
  /\ repCount = 1

(***************************************************************************)
(* Properties of the issue checks, checked under Spec.                     *)
(***************************************************************************)

\* C8: a deadlift frame that ends a rep - the bottom has been reached since
\* the last completed rep - with hip angle 155 is the standing-detection
\* frame and reports lockout_incomplete; a frame on which standing is
\* detected with hip angle 168 does not report it.
C8_LockoutIncompleteAt155 ==
  [][(FrameStep /\ exercise = "deadlift") =>
       /\ (bottomSince /\ analysis'.hipAngle = 155)
            => /\ analysis'.phase = "standing"
               /\ "lockout_incomplete" \in Range(analysis'.issues)
       /\ (analysis'.phase = "standing" /\ analysis'.hipAngle = 168)
            => "lockout_incomplete" \notin Range(analysis'.issues)]_vars

\* C9: a squat frame at the bottom of the movement - a frame on the way
\* down after which the knee angle rises again - with knee angle 120 has
\* not_deep_enough reported, on that frame or on the one that shows the
\* rise; a frame with phase bottom and knee angle 60 reports too_deep; no
\* frame reports both.
C9_DepthIssuesAtBottom ==
  [][(FrameStep /\ exercise = "squat") =>
       /\ ( /\ analysis # NoAnalysis
            /\ analysis.kneeAngle = 120
            /\ analysis.phase \in {"descending", "bottom"}
            /\ analysis'.kneeAngle > 120 )
            => "not_deep_enough"
                 \in Range(analysis.issues) \cup Range(analysis'.issues)
       /\ (analysis'.phase = "bottom" /\ analysis'.kneeAngle = 60)
            => "too_deep" \in Range(analysis'.issues)
       /\ ~({"not_deep_enough", "too_deep"}
              \subseteq Range(analysis'.issues))]_vars

(***************************************************************************)
(* The dispatch, checked under SpecAnyTag.                                 *)
(***************************************************************************)

\* C10: the squat analyzer has run exactly when the tag is squat and the
\* deadlift analyzer exactly when the tag is deadlift; with a tag outside
\* the set no analyzer has run and nothing has been analyzed.
C10_DispatchRejectsOtherTags ==
  /\ lastCall # "none"
       => /\ (lastCall = "analyzeSquatForm") <=> (exercise = "squat")
          /\ (lastCall = "analyzeDeadliftForm") <=> (exercise = "deadlift")
  /\ exercise \notin Exercise
       => /\ lastCall = "none"
          /\ analysis = NoAnalysis
          /\ tracker = createPhaseTracker

(***************************************************************************)
(* Properties of the analyzers, checked under SpecEngine.                  *)
(***************************************************************************)

\* The landmark indices the analyzers read.
AnalyzerIndices ==
  {LEFT_SHOULDER, RIGHT_SHOULDER, LEFT_HIP, RIGHT_HIP, LEFT_KNEE, RIGHT_KNEE,
   LEFT_ANKLE, RIGHT_ANKLE}

\* C11: for every landmark array - indices absent, visibility 0 - the call
\* returns a well-formed FormAnalysis; every absent index is read as the
\* point (0,0), so a frame with no index present has knee and hip angle 0
\* and a frame without ankles has the knee angle measured to (0,0); and the
\* tracker holds this frame's phase and angle afterwards.
C11_AbsentLandmarksDegrade ==
  call.made =>
    LET f == call.frame
        res == call.result
        mid(i, j) == getMidpoint(Pt(f.at[i].x, f.at[i].y),
                                 Pt(f.at[j].x, f.at[j].y))
    IN  /\ res.isGoodForm \in BOOLEAN
        /\ res.repCompleted \in BOOLEAN
        /\ res.phase \in Phase
        /\ Range(res.issues) \subseteq FormIssue
        /\ res.kneeAngle \in 0..180
        /\ res.hipAngle \in 0..180
        /\ \A i \in AnalyzerIndices \ DOMAIN f.at :
             getLandmark(f, i) = [x |-> 0, y |-> 0]
        /\ (AnalyzerIndices \cap DOMAIN f.at = {})
             => (res.kneeAngle = 0 /\ res.hipAngle = 0)
        /\ (AnalyzerIndices \ DOMAIN f.at = {LEFT_ANKLE, RIGHT_ANKLE})
             => res.kneeAngle
                  = getKneeAngle(mid(LEFT_HIP, RIGHT_HIP),
                                 mid(LEFT_KNEE, RIGHT_KNEE), Pt(0, 0))
        /\ tracker.previousPhase = res.phase
        /\ tracker.previousKneeAngle
             = IF exercise = "squat" THEN res.kneeAngle ELSE res.hipAngle

\* A squat frame without ankle landmarks was analyzed: the knee angle to
\* (0,0) is 23, the frame is a bottom frame and the tracker recorded it.
C11_Witness ==
  /\ call.made
  /\ exercise = "squat"
  /\ call.frame = NoAnkles
  /\ call.result.kneeAngle = 23
  /\ call.result.phase = "bottom"
  /\ tracker.bottomReached

(***************************************************************************)
(* Two sessions, checked under SpecPair.                                   *)
(***************************************************************************)

\* C12: with the frames of two sessions interleaved in any order, each
\* session's hook (its last FormAnalysis, its counts, its per-rep issues)
\* and its tracker object are what they are when the session is fed the
\* same frames alone; the two sessions hold different tracker objects.
C12_SessionsAreIsolated ==
  pair.on =>
    /\ pair.session[1].trackerRef # pair.session[2].trackerRef
    /\ \A s \in {1, 2} :
         /\ pair.session[s] = pair.alone[s].session
         /\ pair.heap[pair.session[s].trackerRef] = pair.alone[s].tracker

\* A squat session with one bad rep counted and a deadlift session in the
\* middle of its first rep, their trackers in different states.
C12_Witness ==
  /\ pair.on
  /\ pair.session[1].exercise = "squat"
  /\ pair.session[2].exercise = "deadlift"
  /\ pair.session[1].badFormCount = 1
  /\ pair.session[2].repCount = 0
  /\ pair.heap[pair.session[2].trackerRef].bottomReached
  /\ ~pair.heap[pair.session[1].trackerRef].bottomReached

(***************************************************************************)
(* Voice feedback, checked under SpecVoice.                                *)
(***************************************************************************)

\* A step that is one call of speak.
SpeakStep == \E text \in Texts, key \in Keys : Speak(text, key)

\* C13: after every speak call, no feedback key has two utterances less
\* than 3000 ms apart; and a call that was suppressed - debounced, disabled
\* or unsupported - leaves every key's last-spoken time as it was.
C13_DebouncedPerKey ==
  [][SpeakStep =>
       /\ \A k \in DOMAIN voice'.uttered :
            Len(voice'.uttered[k]) = 2
              => voice'.uttered[k][2] - voice'.uttered[k][1] >= 3000
       /\ voice'.outcome \in {"debounced", "disabled", "unsupported"}
            => voice'.lastSpoken = voice.lastSpoken]_vars

\* The same statement for every feedback key but "__proto__".
VoiceOwnKeysDebounced ==
  [][SpeakStep =>
       /\ \A k \in DOMAIN voice'.uttered \ {"__proto__"} :
            Len(voice'.uttered[k]) = 2
              => voice'.uttered[k][2] - voice'.uttered[k][1] >= 3000
       /\ voice'.outcome \in {"debounced", "disabled", "unsupported"}
            => voice'.lastSpoken = voice.lastSpoken]_vars

\* The phase changes of the cycle standing -> descending -> bottom ->
\* ascending -> standing.
CycleNext ==
  {<<"standing", "descending">>, <<"descending", "bottom">>,
   <<"bottom", "ascending">>, <<"ascending", "standing">>}

\* The phases of the previous frame and of this frame.
PhaseChange == <<call.before.previousPhase, call.result.phase>>

\* C14 as stated: between two consecutive frames the phase stays the same
\* or advances to the next phase of the cycle.
C14_PhaseFollowsTheCycle ==
  (call.made /\ ~call.first)
    => \/ call.before.previousPhase = call.result.phase
       \/ PhaseChange \in CycleNext

\* C14 amended: between two consecutive frames the phase may change to any
\* other phase, except that standing is never followed by ascending and
\* bottom is never followed by descending.
C14_OnlyTwoChangesExcluded ==
  (call.made /\ ~call.first)
    => PhaseChange \notin {<<"standing", "ascending">>,
                           <<"bottom", "descending">>}

\* A deadlift frame classified descending right after an ascending frame.
C14_Witness ==
  /\ call.made
  /\ ~call.first
  /\ exercise = "deadlift"
  /\ PhaseChange = <<"ascending", "descending">>

\* C15: a squat frame with knee angle k, analyzed on a tracker whose stored
\* angle is p (180 on the first frame), is standing if k >= 165, else bottom
\* if k <= 100, else descending if k < p, else ascending; a bottom frame
\* leaves bottomReached and repInProgress set, a descending frame leaves
\* repInProgress set, and the tracker then stores the phase and k.
C15_SquatPhaseDecision ==
  (call.made /\ exercise = "squat")
    => LET k == call.result.kneeAngle
           p == call.before.previousKneeAngle
       IN  /\ call.first => p = 180
           /\ call.result.phase =
                IF k >= 165 THEN "standing"
                ELSE IF k <= 100 THEN "bottom"
                ELSE IF k < p THEN "descending"
                ELSE "ascending"
           /\ call.result.phase = "bottom"
                => tracker.bottomReached /\ tracker.repInProgress
           /\ call.result.phase = "descending" => tracker.repInProgress
           /\ tracker.previousPhase = call.result.phase
           /\ tracker.previousKneeAngle = k

\* A later squat frame between the thresholds whose angle is not below the
\* stored one, classified ascending and stored.
C15_Witness ==
  /\ call.made
  /\ ~call.first
  /\ exercise = "squat"
  /\ call.result.kneeAngle > 100
  /\ call.result.kneeAngle < 165
  /\ call.result.kneeAngle > call.before.previousKneeAngle
  /\ call.result.phase = "ascending"
  /\ tracker.previousKneeAngle = call.result.kneeAngle

\* C16: a deadlift frame with hip angle h, analyzed on a tracker whose
\* stored angle is p (180 on the first frame), is standing if h >= 165, else
\* bottom if h <= 110, else descending if h < p, else ascending; the
\* tracker's previous-angle slot then holds h.
C16_DeadliftPhaseDecision ==
  (call.made /\ exercise = "deadlift")
    => LET h == call.result.hipAngle
           p == call.before.previousKneeAngle
       IN  /\ call.first => p = 180
           /\ call.result.phase =
                IF h >= 165 THEN "standing"
                ELSE IF h <= 110 THEN "bottom"
                ELSE IF h < p THEN "descending"
                ELSE "ascending"
           /\ tracker.previousPhase = call.result.phase
           /\ tracker.previousKneeAngle = h

\* A later deadlift frame whose hip and knee angles differ, classified
\* descending on the hip angle although its knee angle is not below the
\* stored angle.
C16_Witness ==
  /\ call.made
  /\ ~call.first
  /\ exercise = "deadlift"
  /\ call.result.hipAngle < call.before.previousKneeAngle
  /\ call.result.kneeAngle >= call.before.previousKneeAngle
  /\ call.result.phase = "descending"
  /\ tracker.previousKneeAngle = call.result.hipAngle
  /\ tracker.previousKneeAngle # call.result.kneeAngle

\* C17 as stated: after every deadlift frame a stored baseline knee angle
\* implies that a repetition is in progress, and a frame stores a baseline
\* only if it is a descending frame that begins a repetition.
C17_BaselineOnlyWithinRep ==
  (call.made /\ exercise = "deadlift")
    => /\ tracker.initialKneeAngle # Null => tracker.repInProgress
       /\ (/\ tracker.initialKneeAngle # Null
           /\ tracker.initialKneeAngle # call.before.initialKneeAngle)
            => /\ call.result.phase = "descending"
               /\ ~call.before.repInProgress
               /\ tracker.repInProgress

\* C18: a deadlift frame reports knees_too_far_forward exactly when its
\* phase is ascending, a baseline knee angle is stored and the frame's knee
\* angle differs from the baseline by more than 20 degrees.
C18_DeadliftKneeTravel ==
  (call.made /\ exercise = "deadlift")
    => ("knees_too_far_forward" \in Range(call.result.issues)
          <=> /\ call.result.phase = "ascending"
              /\ tracker.initialKneeAngle # Null
              /\ Abs(call.result.kneeAngle - tracker.initialKneeAngle[1]) > 20)

\* An ascending deadlift frame more than 20 degrees from the baseline,
\* reported.
C18_Witness ==
  /\ call.made
  /\ exercise = "deadlift"
  /\ call.result.phase = "ascending"
  /\ tracker.initialKneeAngle # Null
  /\ Abs(call.result.kneeAngle - tracker.initialKneeAngle[1]) > 20
  /\ "knees_too_far_forward" \in Range(call.result.issues)

\* C19: a squat frame reports knees_caving or forward_lean only if its phase
\* is not standing, and knees_too_far_forward only if its phase is bottom or
\* descending.
C19_SquatIssuesByPhase ==
  (call.made /\ exercise = "squat")
    => LET issues == Range(call.result.issues)
       IN  /\ "knees_caving" \in issues => call.result.phase # "standing"
           /\ "forward_lean" \in issues => call.result.phase # "standing"
           /\ "knees_too_far_forward" \in issues
                => call.result.phase \in {"bottom", "descending"}

\* An ascending squat frame with the knees past the toes, on which
\* knees_too_far_forward is not reported.
C19_Witness ==
  /\ call.made
  /\ exercise = "squat"
  /\ call.result.phase = "ascending"
  /\ Abs(Measured[call.frame].kneeForwardAmount) > KNEE_FORWARD_MAX
  /\ "knees_too_far_forward" \notin Range(call.result.issues)

\* A standing squat frame that leans and caves, on which nothing is
\* reported.
SquatStandingDefectsSilent ==
  /\ call.made
  /\ exercise = "squat"
  /\ call.result.phase = "standing"
  /\ Measured[call.frame].torsoAngle > SQUAT_THRESHOLDS.FORWARD_LEAN_ANGLE
  /\ Abs(Measured[call.frame].leftKneeAnkleOffset
           - Measured[call.frame].rightKneeAnkleOffset)
       > SQUAT_THRESHOLDS.KNEE_CAVE_THRESHOLD
  /\ call.result.issues = << >>

\* C20: the issues list either analyzer returns for a frame holds no issue
\* more than once.
C20_IssuesHaveNoDuplicates ==
  call.made
    => Cardinality(Range(call.result.issues)) = Len(call.result.issues)

\* A deadlift frame returned with two issues.
C20_Witness ==
  /\ call.made
  /\ exercise = "deadlift"
  /\ Len(call.result.issues) >= 2

\* A squat frame returned with three issues.
SquatFrameWithThreeIssues ==
  /\ call.made
  /\ exercise = "squat"
  /\ Len(call.result.issues) >= 3

C22_BottomReachedWithinRep ==
  call.made
    => /\ tracker.bottomReached => tracker.repInProgress
       /\ (call.before.repInProgress /\ ~tracker.repInProgress)
            => call.result.repCompleted

\* A frame that found both flags set and cleared them, completing the
\* repetition.
C22_Witness ==
  /\ call.made
  /\ call.before.bottomReached
  /\ call.before.repInProgress
  /\ ~tracker.repInProgress
  /\ ~tracker.bottomReached
  /\ call.result.repCompleted

LegsAbsent(landmarks) ==
  \A i \in {LEFT_HIP, RIGHT_HIP, LEFT_KNEE, RIGHT_KNEE, LEFT_ANKLE, RIGHT_ANKLE} :
    i \notin DOMAIN landmarks.at

\* C24: in a squat session a frame without hip, knee and ankle landmarks
\* measures knee angle 0, is classified bottom, reports too_deep and leaves
\* bottomReached and repInProgress set; a standing frame that directly
\* follows a frame of knee angle 0 completes a repetition, which the hook
\* counts as a bad one.
C24_AbsentLegsCountABadRep ==
  [][exercise = "squat" =>
       /\ \A landmarks \in Frames :
            (LegsAbsent(landmarks) /\ AnalyzeFrame(landmarks))
              => /\ analysis'.kneeAngle = 0
                 /\ analysis'.phase = "bottom"
                 /\ "too_deep" \in Range(analysis'.issues)
                 /\ tracker'.bottomReached
                 /\ tracker'.repInProgress
       /\ (/\ FrameStep
           /\ analysis # NoAnalysis
           /\ analysis.kneeAngle = 0
           /\ analysis'.phase = "standing")
            => /\ analysis'.repCompleted
               /\ repCount' = repCount + 1
               /\ badFormCount' = badFormCount + 1
               /\ goodFormCount' = goodFormCount]_vars

\* The first frame of a squat session, measured at knee angle 0 (and, the
\* shoulders being absent too, torso angle 90): the repetition it opened is
\* at the bottom with too_deep and forward_lean collected, and no repetition
\* is counted yet.
C24_Witness ==
  /\ exercise = "squat"
  /\ analysis # NoAnalysis
  /\ analysis.kneeAngle = 0
  /\ analysis.phase = "bottom"
  /\ tracker.bottomReached
  /\ tracker.repInProgress
  /\ currentRepIssues = {"too_deep", "forward_lean"}
  /\ sessionIssues = {"too_deep", "forward_lean"}
  /\ repCount = 0

\* A step that is one call of speakRepComplete.
RepCompleteStep == \E isGoodForm \in BOOLEAN : SpeakRepComplete(isGoodForm)

\* C25 as stated: with speech supported and enabled, a speakRepComplete
\* call made at least 1500 ms after the last spoken rep-completion message
\* (or when none was spoken yet) is spoken.
C25_RepFeedbackSpokenAfter1500 ==
  [][(/\ RepCompleteStep
      /\ voice.isSupported
      /\ voice.isEnabled
      /\ \/ "rep_complete" \notin DOMAIN voice.uttered
         \/ LET said == voice.uttered["rep_complete"]
            IN  voice.now - said[Len(said)] >= 1500)
       => /\ voice'.outcome = "uttered"
          /\ voice'.uttered["rep_complete"]
               [Len(voice'.uttered["rep_complete"])] = voice.now]_vars

\* What the code does: such a call is spoken exactly when at least 3000 ms
\* have passed since the last spoken rep-completion message.
RepFeedbackSpokenAfter3000 ==
  [][(/\ RepCompleteStep
      /\ voice.isSupported
      /\ voice.isEnabled)
       => (voice'.outcome = "uttered"
             <=> \/ "rep_complete" \notin DOMAIN voice.uttered
                 \/ LET said == voice.uttered["rep_complete"]
                    IN  voice.now - said[Len(said)] >= DEBOUNCE_MS)]_vars

\* C26 as stated: once the worker has handled a DESTROY, and until an INIT
\* message arrives, it holds no PoseLandmarker and has posted no READY.
C26_DestroyedStaysDestroyed ==
  (worker.on /\ worker.destroyed)
    => /\ ~worker.poseLandmarker
       /\ ~worker.readySince

\* C27 as stated: a close event delivered by a socket that connect() has
\* replaced leaves the state and setupComplete of the client unchanged.
C27_ReplacedSocketCloseIsIgnored ==
  [][\A i \in 1..MaxSockets :
       (/\ SocketClose(i)
        /\ client.ws # 0
        /\ i # client.ws)
         => /\ client'.state = client.state
            /\ client'.setupComplete = client.setupComplete]_vars

\* The promise of the connect() call that created socket i is pending.
ConnectPending(i) ==
  /\ client.on
  /\ i \in DOMAIN client.sockets
  /\ client.sockets[i].promise = "pending"

\* C28 as stated: if every socket eventually delivers setupComplete, an
\* error event or a close event, the promise of every connect() call is
\* eventually resolved or rejected.
C28_ConnectEventuallySettles ==
  \A i \in 1..MaxSockets : ConnectPending(i) ~> ~ConnectPending(i)

\* C29 as stated: after any sequence of addGoodRep, addBadRep and removeRep
\* calls, with or without a render between them, repCount is goodFormCount
\* plus badFormCount and none of the three is negative.
C29_PageCountsConsistent ==
  page.on
    => /\ page.repCount = page.goodFormCount + page.badFormCount
       /\ page.repCount >= 0
       /\ page.goodFormCount >= 0
       /\ page.badFormCount >= 0

\* The part of it that the code keeps: repCount is the sum of the other two.
PageRepCountIsTheSum ==
  page.on => page.repCount = page.goodFormCount + page.badFormCount

\* Why such a promise stays pending whatever happens next: once a socket is
\* CLOSED no step settles the promise of its connect() call.
ClosedSocketNeverSettles ==
  [][\A i \in 1..MaxSockets :
       (ConnectPending(i) /\ client.sockets[i].readyState = "CLOSED")
         => client'.sockets[i].promise = "pending"]_vars

\* A socket has closed without an error event before setupComplete, and the
\* promise of its connect() call is pending.
ClosedWhilePending ==
  \E i \in 1..MaxSockets :
    /\ ConnectPending(i)
    /\ client.sockets[i].readyState = "CLOSED"
    /\ ~client.sockets[i].errored

====
